---- MODULE Spec2Model ----
(***************************************************************************)
(* Per-stream session engine of ai-speech-ingress-service.                 *)
(*                                                                         *)
(* One client stream is modelled: the stream driver (Server.StreamAudio),  *)
(* the session handler (audio.Handler) with its segment lifecycle          *)
(* (segment.Lifecycle) and id generator (segment.Generator), and the two   *)
(* STT adapters (google.Adapter with its Listen goroutines, mock.Adapter   *)
(* with its callback goroutines).  Every region of code that runs under    *)
(* one lock, or is one call on an external collaborator, is one atomic     *)
(* step of the thread that executes it; threads interleave freely.         *)
(***************************************************************************)
EXTENDS Integers, Sequences, FiniteSets, TLC

(* ------------------------------ bounds -------------------------------- *)
\* audio frames the client sends on the stream (the first one included)
\* when the Google adapter is configured
MaxFrames == 2
\* the same for the mock adapter, whose callbacks are driven by the frames:
\* one goroutine per frame, the final after the last partial
MaxMockFrames == 3
\* responses the provider delivers over all sessions of the stream
MaxResponses == 1
\* configured SegmentLimits (scaled down): bytes and partials per segment
LimitAudioBytes == 3
LimitPartials == 1
\* publish calls that fail during one stream when the bus is unreliable
MaxPublishFailures == 1

(* --------------------------- derived sets ------------------------------ *)
\* thread 0 is the goroutine running StreamAudio; the others are goroutines
\* started with `go` (Listen loops, mock callback goroutines)
Driver == 0
MaxWorkers == IF MaxResponses > MaxMockFrames THEN MaxResponses + 1
              ELSE MaxMockFrames + 1
Workers == 1..MaxWorkers
Threads == {Driver} \cup Workers
\* provider sessions (streams) are numbered in creation order; 0 is nil
MaxStreams == MaxResponses + 1
\* len(frame.Audio) of an incoming frame
AudioLens == {0, 1, 2}
\* frame.InteractionId of the first frame, kept in interactionId
InteractionId == 1
\* a StreamingRecognizeResponse: the END_OF_SINGLE_UTTERANCE flag and the
\* kinds ("F" is_final, "P" interim) of its results, in order
Responses ==
  { [eou |-> TRUE,  results |-> <<>>],
    [eou |-> FALSE, results |-> <<"P">>],
    [eou |-> FALSE, results |-> <<"F", "P">>],
    [eou |-> TRUE,  results |-> <<"F", "P">>],
    [eou |-> FALSE, results |-> <<"F", "F">>] }
\* a response that ends the utterance with two final results: the second is
\* delivered by the old Listen loop after the restart
TwoFinalResponses ==
  { [eou |-> TRUE,  results |-> <<"F", "F">>] }
\* a testCallback that has received nothing
NoCallbacks == [partials |-> 0, finals |-> 0, utterances |-> 0]
\* len(utterance.Partials) of the entries of mock.DefaultUtterances
DefaultUtterances == <<3, 2, 3, 3, 1>>

VARIABLES
  \* segment.Lifecycle
  state, segmentId,
  \* segment.Generator
  counter,
  \* audio.Handler
  audioBytes, partialCount, lastAudioOffsetMs, pendingRestart,
  continuousMode, utteranceCount,
  \* google.Adapter: a.stream (0 = nil), sessions created, what was sent on
  \* each session, sessions whose send side was closed, client closed
  stream, streams, sent, sendClosed, clientClosed,
  \* mock.Adapter
  closed, partialIndex, finalSent, endOfUtteranceSent, audioReceived,
  utterance, amu,
  \* the callback a.cb when it is a recording one (testCallback of the
  \* adapter's tests): the partials, finals and ends of utterance it received
  testCallback,
  \* the RPC: stream context, frames read, ack written, error returned
  ctxCancelled, frames, acked, rpcErr,
  \* the provider: which adapter is configured, responses delivered
  provider, responses,
  \* the bus: events in publication order, publish calls that will fail
  published, publishFaults,
  \* goroutines: position and locals of each
  thr, nextThread,
  \* history: segments that were ever DROPPED / ever CLOSED or DROPPED, the
  \* last lifecycle state each segment id was seen in, Restart calls made,
  \* the session each restart-rollover installed for its new segment, the
  \* segments OnError dropped while they were OPEN
  wasDropped, wasTerminal, segState, restarts, segSess, errDropped

lifecycleVars == <<state, segmentId>>
handlerVars == <<audioBytes, partialCount, lastAudioOffsetMs, pendingRestart,
                 continuousMode, utteranceCount>>
googleVars == <<stream, streams, sent, sendClosed, clientClosed>>
mockVars == <<closed, partialIndex, finalSent, endOfUtteranceSent,
              audioReceived, utterance, amu, testCallback>>
rpcVars == <<ctxCancelled, frames, acked, rpcErr>>
histVars == <<wasDropped, wasTerminal, segState, restarts, segSess,
              errDropped>>
vars == <<state, segmentId, counter, audioBytes, partialCount,
          lastAudioOffsetMs, pendingRestart, continuousMode, utteranceCount,
          stream, streams, sent, sendClosed, clientClosed,
          closed, partialIndex, finalSent, endOfUtteranceSent, audioReceived,
          utterance, amu, testCallback, ctxCancelled, frames, acked, rpcErr,
          provider, responses, published, publishFaults, thr, nextThread,
          wasDropped, wasTerminal, segState, restarts, segSess, errDropped>>

(* ------------------------- segment.Lifecycle --------------------------- *)
StateOpen == "OPEN"
StateFinalEmitted == "FINAL_EMITTED"
StateClosed == "CLOSED"
StateDropped == "DROPPED"
States == {StateOpen, StateFinalEmitted, StateClosed, StateDropped}

IsTerminal(s) == s = StateClosed \/ s = StateDropped

\* EmitPartial that still admits a partial after the final
EmitPartialAfterFinal(s) ==
  IF s = StateOpen \/ s = StateFinalEmitted THEN "nil"
  ELSE "ErrSegmentClosed"

\* the error EmitPartial returns in state s ("nil" = allowed)
EmitPartial(s) ==
  IF s = StateOpen THEN "nil"
  ELSE IF s = StateFinalEmitted THEN "ErrCannotEmitPartialAfterFinal"
  ELSE "ErrSegmentClosed"

\* EmitFinal without the FINAL_EMITTED test
EmitFinalAlways(s) ==
  IF IsTerminal(s) THEN "ErrSegmentClosed" ELSE "nil"

\* EmitFinal that admits a final for a dropped segment
EmitFinalIgnoresDrop(s) ==
  IF s = StateOpen \/ s = StateDropped THEN "nil"
  ELSE IF s = StateFinalEmitted THEN "ErrFinalAlreadyEmitted"
  ELSE "ErrSegmentClosed"

\* the error EmitFinal returns in state s, and the state it leaves
EmitFinal(s) ==
  IF s = StateOpen THEN "nil"
  ELSE IF s = StateFinalEmitted THEN "ErrFinalAlreadyEmitted"
  ELSE "ErrSegmentClosed"

\* EmitFinal that admits the final without leaving OPEN
EmitFinalStateKeepsOpen(s) == s

EmitFinalState(s) == IF s = StateOpen THEN StateFinalEmitted ELSE s

\* Close that leaves a dropped segment DROPPED
CloseStateKeepsDropped(s) == IF s = StateDropped THEN s ELSE StateClosed

\* Close: any state to CLOSED
CloseState(s) == StateClosed

\* Drop that tests only for DROPPED, so that it also drops a closed segment
DropUnlessDropped(s) == s # StateDropped

\* Drop: its result, and the state it leaves
Drop(s) == ~IsTerminal(s)

DropState(s) == IF IsTerminal(s) THEN s ELSE StateDropped

(* --------------------------- thread records ---------------------------- *)
\* pc: position; ret: where the caller resumes when the handler call
\* returns; stream: the session a Listen loop captured (0 in the other
\* goroutines); old: the stream a send read, Restart's oldStream; new: the
\* stream Restart created; results: results of the current
\* response not yet delivered; feou: its END_OF_SINGLE_UTTERANCE flag; seg,
\* off: ev.SegmentID and audioOffsetMs of the event being built; newSeg:
\* newSegmentId; len, foff: the frame being forwarded; fail: what held when
\* the read failed (in the driver: how the frame loop ended, and inside
\* SendAudio which limit was exceeded); acc: this OnFinal call was accepted
\* by the lifecycle
Idle == [pc |-> "idle", ret |-> "", stream |-> 0, old |-> 0, new |-> 0,
         results |-> <<>>, seg |-> 0, off |-> 0, newSeg |-> 0,
         len |-> 0, foff |-> 0, feou |-> FALSE, fail |-> "", acc |-> FALSE]

Done(r) == [Idle EXCEPT !.pc = "done"]

\* The caller's continuation after a handler callback returned. A Listen
\* loop delivers the next result of the response it is processing, without
\* looking at a.stream again, and goes back to Recv when none is left.
NextResult(r) ==
  LET base == [Idle EXCEPT !.stream = r.stream] IN
  IF r.results = <<>> THEN [base EXCEPT !.pc = "L_recv"]
  ELSE [base EXCEPT !.pc = IF Head(r.results) = "F" THEN "OnFinal" ELSE "OnPartial",
                    !.ret = "L_results",
                    !.results = Tail(r.results)]

Resume(r) ==
  IF r.ret = "L_results" THEN NextResult(r)
  ELSE IF r.ret = "M_unlock" THEN [Idle EXCEPT !.pc = "M_unlock"]
  ELSE IF r.ret = "M_eou" THEN [Idle EXCEPT !.pc = "OnEndOfUtterance", !.ret = "done"]
  ELSE Done(r)

\* The driver's continuation after handler.SendAudio returned err (TRUE =
\* an error): the first frame's error is returned to the RPC layer, a later
\* frame's error drops the segment; a later frame whose end_of_utterance
\* flag e is set ends the loop.
AfterSend(r, err, e) ==
  IF r.ret = "first"
    THEN IF err THEN [Idle EXCEPT !.pc = "Close", !.fail = "firstSendErr"]
                ELSE [Idle EXCEPT !.pc = "Recv"]
    ELSE IF err THEN [Idle EXCEPT !.pc = "Drop", !.fail = "sendErr"]
                ELSE IF e THEN [Idle EXCEPT !.pc = "Ack", !.fail = "eou"]
                          ELSE [Idle EXCEPT !.pc = "Recv"]

Set(t, r) == thr' = [thr EXCEPT ![t] = r]
Goto(t, p) == thr' = [thr EXCEPT ![t].pc = p]
At(t, p) == thr[t].pc = p

\* `go f()`: the next free goroutine starts at pc p (with locals r)
Spawn(t, r, w) == thr' = [thr EXCEPT ![t] = r, ![nextThread] = w]

(* ----------------------------- history --------------------------------- *)
\* record that the current segment's lifecycle is now in state s
NoteState(s) ==
  /\ segState' = [segState EXCEPT ![segmentId] = s]
  /\ wasDropped' = IF s = StateDropped THEN wasDropped \cup {segmentId} ELSE wasDropped
  /\ wasTerminal' = IF IsTerminal(s) THEN wasTerminal \cup {segmentId} ELSE wasTerminal

\* the same for every transition but the one OnError makes
Note(s) ==
  /\ NoteState(s)
  /\ UNCHANGED errDropped

histLC == <<wasDropped, wasTerminal, segState, errDropped>>
envVars == <<rpcVars, provider, responses, publishFaults>>
\* everything but the thread records
rest == <<state, segmentId, counter, handlerVars, googleVars, mockVars,
          envVars, published, nextThread, histVars>>

\* what an external call may do
Outcomes == {"ok", "fail"}

(* ---------------------- audio.Handler: callbacks ----------------------- *)
\* OnPartial: h.lifecycle.EmitPartial(); a rejection is logged and ignored
OnPartial(t) ==
  /\ At(t, "OnPartial")
  /\ IF EmitPartial(state) = "nil"
       THEN Goto(t, "P_count")
       ELSE Set(t, Resume(thr[t]))
  /\ UNCHANGED rest

\* h.mu.Lock(); h.partialCount++; count := h.partialCount; then the
\* MaxPartials test on the local copy
PartialCount(t) ==
  /\ At(t, "P_count")
  /\ partialCount' = partialCount + 1
  /\ Goto(t, IF LimitPartials > 0 /\ partialCount' > LimitPartials
               THEN "P_drop" ELSE "P_segid")
  /\ UNCHANGED <<state, segmentId, counter, audioBytes, lastAudioOffsetMs,
                 pendingRestart, continuousMode, utteranceCount, googleVars,
                 mockVars, envVars, published, nextThread, histVars>>

\* h.DropSegment(reason) of OnPartial, then return without publishing
PartialDrop(t) ==
  /\ At(t, "P_drop")
  /\ state' = DropState(state)
  /\ Note(state')
  /\ Set(t, Resume(thr[t]))
  /\ UNCHANGED <<segmentId, counter, handlerVars, googleVars, mockVars,
                 envVars, published, nextThread, restarts, segSess>>

\* SegmentID: h.lifecycle.SegmentId() while the event is built
PartialSegmentId(t) ==
  /\ At(t, "P_segid")
  /\ Set(t, [thr[t] EXCEPT !.pc = "P_publish", !.seg = segmentId])
  /\ UNCHANGED rest

\* h.publishPartial(ev): h.publisher.PublishPartial may fail, which is
\* only logged
PublishPartial(t) ==
  /\ At(t, "P_publish")
  /\ \E o \in Outcomes :
       IF o = "ok"
         THEN /\ published' = Append(published,
                    [kind |-> "partial", seg |-> thr[t].seg, off |-> 0,
                     src |-> thr[t].stream])
              /\ UNCHANGED publishFaults
         ELSE /\ publishFaults > 0
              /\ publishFaults' = publishFaults - 1
              /\ UNCHANGED published
  /\ Set(t, Resume(thr[t]))
  /\ UNCHANGED <<state, segmentId, counter, handlerVars, googleVars, mockVars,
                 rpcVars, provider, responses, nextThread, histVars>>

\* OnFinal that rolls the segment over as soon as the final is accepted,
\* before the event is built and published
OnFinalRollsOverFirst(t) ==
  /\ At(t, "OnFinal")
  /\ IF EmitFinal(state) = "nil"
       THEN /\ counter' = counter + 1
            /\ segmentId' = counter'
            /\ state' = StateOpen
            /\ segState' = [segState EXCEPT ![segmentId] = StateClosed,
                                            ![counter'] = StateOpen]
            /\ wasTerminal' = wasTerminal \cup {segmentId}
            /\ Set(t, [thr[t] EXCEPT !.pc = "F_publish", !.acc = TRUE,
                                     !.seg = segmentId, !.off = lastAudioOffsetMs])
       ELSE /\ Set(t, Resume(thr[t]))
            /\ UNCHANGED <<state, segmentId, counter, wasTerminal, segState>>
  /\ UNCHANGED <<handlerVars, googleVars, mockVars, envVars, published,
                 nextThread, wasDropped, restarts, segSess, errDropped>>

\* OnFinal: h.lifecycle.EmitFinal() validates and moves to FINAL_EMITTED
OnFinal(t) ==
  /\ At(t, "OnFinal")
  /\ IF EmitFinal(state) = "nil"
       THEN /\ state' = EmitFinalState(state)
            /\ Note(state')
            /\ Set(t, [thr[t] EXCEPT !.pc = "F_offset", !.acc = TRUE])
       ELSE /\ Set(t, Resume(thr[t]))
            /\ UNCHANGED <<state, histLC>>
  /\ UNCHANGED <<segmentId, counter, handlerVars, googleVars, mockVars,
                 envVars, published, nextThread, restarts, segSess>>

\* the event is built: audioOffsetMs := h.lastAudioOffsetMs under
\* h.mu.RLock, SegmentID: h.lifecycle.SegmentId()
FinalEvent(t) ==
  /\ At(t, "F_offset")
  /\ Set(t, [thr[t] EXCEPT !.pc = "F_publish", !.off = lastAudioOffsetMs,
                           !.seg = segmentId])
  /\ UNCHANGED rest

\* OnFinal that returns when the publish of the final failed, without the
\* rollover
PublishFinalReturnsOnError(t) ==
  /\ At(t, "F_publish")
  /\ \E o \in Outcomes :
       IF o = "ok"
         THEN /\ published' = Append(published,
                    [kind |-> "final", seg |-> thr[t].seg, off |-> thr[t].off,
                     src |-> thr[t].stream])
              /\ Goto(t, "F_flags")
              /\ UNCHANGED publishFaults
         ELSE /\ publishFaults > 0
              /\ publishFaults' = publishFaults - 1
              /\ Set(t, Resume(thr[t]))
              /\ UNCHANGED published
  /\ UNCHANGED <<state, segmentId, counter, handlerVars, googleVars, mockVars,
                 rpcVars, provider, responses, nextThread, histVars>>

\* h.publishFinal(ev): h.publisher.PublishFinal may fail, which is only
\* logged
PublishFinal(t) ==
  /\ At(t, "F_publish")
  /\ \E o \in Outcomes :
       IF o = "ok"
         THEN /\ published' = Append(published,
                    [kind |-> "final", seg |-> thr[t].seg, off |-> thr[t].off,
                     src |-> thr[t].stream])
              /\ UNCHANGED publishFaults
         ELSE /\ publishFaults > 0
              /\ publishFaults' = publishFaults - 1
              /\ UNCHANGED published
  /\ Goto(t, "F_flags")
  /\ UNCHANGED <<state, segmentId, counter, handlerVars, googleVars, mockVars,
                 rpcVars, provider, responses, nextThread, histVars>>

\* the branch after the final with the two tests swapped: continuous mode is
\* looked at before the pending restart
FinalFlagsContinuousFirst(t) ==
  /\ At(t, "F_flags")
  /\ pendingRestart' = FALSE
  /\ IF continuousMode THEN Goto(t, "C_close")
     ELSE IF pendingRestart THEN Goto(t, "U_close")
     ELSE Set(t, Resume(thr[t]))
  /\ UNCHANGED <<state, segmentId, counter, audioBytes, partialCount,
                 lastAudioOffsetMs, continuousMode, utteranceCount, googleVars,
                 mockVars, envVars, published, nextThread, histVars>>

\* h.mu.Lock(); needsRestart := h.pendingRestart; h.pendingRestart = false;
\* isContinuousMode := h.continuousMode; then the branch on the two copies
FinalFlags(t) ==
  /\ At(t, "F_flags")
  /\ pendingRestart' = FALSE
  /\ IF pendingRestart THEN Goto(t, "U_close")
     ELSE IF continuousMode THEN Goto(t, "C_close")
     ELSE Set(t, Resume(thr[t]))
  /\ UNCHANGED <<state, segmentId, counter, audioBytes, partialCount,
                 lastAudioOffsetMs, continuousMode, utteranceCount, googleVars,
                 mockVars, envVars, published, nextThread, histVars>>

\* a rollover that does not close the old segment before it resets
TransitionCloseSkipped(t) ==
  /\ At(t, "U_close") \/ At(t, "C_close")
  /\ Goto(t, IF At(t, "U_close") THEN "U_counters" ELSE "C_counters")
  /\ UNCHANGED rest

\* handleUtteranceTransition / handleContinuousModeTransition:
\* h.lifecycle.Close()
TransitionClose(t) ==
  /\ At(t, "U_close") \/ At(t, "C_close")
  /\ state' = CloseState(state)
  /\ Note(state')
  /\ Goto(t, IF At(t, "U_close") THEN "U_counters" ELSE "C_counters")
  /\ UNCHANGED <<segmentId, counter, handlerVars, googleVars, mockVars,
                 envVars, published, nextThread, restarts, segSess>>

\* h.mu.Lock(); utteranceCount++; counters reset; newSegmentId from
\* segmentGen.Next (atomic.AddUint64(&g.counter, 1))
TransitionCounters(t) ==
  /\ At(t, "U_counters") \/ At(t, "C_counters")
  /\ utteranceCount' = utteranceCount + 1
  /\ audioBytes' = 0
  /\ partialCount' = 0
  /\ counter' = counter + 1
  /\ Set(t, [thr[t] EXCEPT !.pc = IF At(t, "U_counters") THEN "U_reset" ELSE "C_reset",
                           !.newSeg = counter'])
  /\ UNCHANGED <<state, segmentId, lastAudioOffsetMs, pendingRestart,
                 continuousMode, googleVars, mockVars, envVars, published,
                 nextThread, histVars>>

\* a rollover that reopens the lifecycle under the old segment id
TransitionResetKeepsId(t) ==
  /\ At(t, "U_reset") \/ At(t, "C_reset")
  /\ state' = StateOpen
  /\ segState' = [segState EXCEPT ![segmentId] = StateOpen]
  /\ IF At(t, "U_reset") THEN Goto(t, "R_new") ELSE Set(t, Resume(thr[t]))
  /\ UNCHANGED <<segmentId, counter, handlerVars, googleVars, mockVars,
                 envVars, published, nextThread, wasDropped, wasTerminal,
                 restarts, segSess, errDropped>>

\* h.lifecycle.Reset(newSegmentId): id and state overwritten together.
\* The single-utterance transition goes on to h.adapter.Restart(ctx).
TransitionReset(t) ==
  /\ At(t, "U_reset") \/ At(t, "C_reset")
  /\ segmentId' = thr[t].newSeg
  /\ state' = StateOpen
  /\ segState' = [segState EXCEPT ![thr[t].newSeg] = StateOpen]
  /\ IF At(t, "U_reset") THEN Goto(t, "R_new") ELSE Set(t, Resume(thr[t]))
  /\ UNCHANGED <<counter, handlerVars, googleVars, mockVars, envVars,
                 published, nextThread, wasDropped, wasTerminal, restarts,
                 segSess, errDropped>>

\* OnEndOfUtterance that starts the utterance transition itself instead of
\* leaving it to the next final
OnEndOfUtteranceRestartsNow(t) ==
  /\ At(t, "OnEndOfUtterance")
  /\ pendingRestart' = TRUE
  /\ Goto(t, "U_close")
  /\ UNCHANGED <<state, segmentId, counter, audioBytes, partialCount,
                 lastAudioOffsetMs, continuousMode, utteranceCount, googleVars,
                 mockVars, envVars, published, nextThread, histVars>>

\* OnEndOfUtterance: h.mu.Lock(); h.pendingRestart = true
OnEndOfUtterance(t) ==
  /\ At(t, "OnEndOfUtterance")
  /\ pendingRestart' = TRUE
  /\ Set(t, Resume(thr[t]))
  /\ UNCHANGED <<state, segmentId, counter, audioBytes, partialCount,
                 lastAudioOffsetMs, continuousMode, utteranceCount, googleVars,
                 mockVars, envVars, published, nextThread, histVars>>

\* OnError: h.lifecycle.Drop(); nothing is published
OnError(t) ==
  /\ At(t, "OnError")
  /\ state' = DropState(state)
  /\ NoteState(state')
  /\ errDropped' = IF state = StateOpen THEN errDropped \cup {segmentId}
                                        ELSE errDropped
  /\ Set(t, Resume(thr[t]))
  /\ UNCHANGED <<segmentId, counter, handlerVars, googleVars, mockVars,
                 envVars, published, nextThread, restarts, segSess>>


(* --------------------------- google.Adapter ---------------------------- *)
\* Restart, first part (under a.mu): oldStream := a.stream; a new stream is
\* created with StreamingRecognize and installed as a.stream, or the error
\* is returned with a.stream untouched
Restart(t) ==
  /\ At(t, "R_new")
  /\ provider = "google"
  /\ restarts' = restarts + 1
  /\ \E o \in Outcomes :
       IF o = "ok"
         THEN /\ streams' = streams + 1
              /\ stream' = streams'
              /\ segSess' = [segSess EXCEPT ![thr[t].newSeg] = streams']
              /\ Set(t, [thr[t] EXCEPT !.pc = "R_config", !.old = stream,
                                         !.new = streams'])
         ELSE /\ Set(t, Resume(thr[t]))
              /\ UNCHANGED <<stream, streams, segSess>>
  /\ UNCHANGED <<state, segmentId, counter, handlerVars, sent, sendClosed,
                 clientClosed, mockVars, envVars, published, nextThread,
                 histLC>>

\* Restart, after a.mu was released: oldStream.CloseSend(), the
\* configuration message on the new stream, then `go a.Listen()`; a failed
\* send returns the error and starts no Listen
RestartConfig(t) ==
  /\ At(t, "R_config")
  /\ sendClosed' = IF thr[t].old # 0 THEN sendClosed \cup {thr[t].old} ELSE sendClosed
  /\ \E o \in Outcomes :
       IF o = "ok"
         THEN /\ sent' = [sent EXCEPT ![thr[t].new] = Append(@, "config")]
              /\ Spawn(t, Resume(thr[t]), [Idle EXCEPT !.pc = "Listen"])
              /\ nextThread' = nextThread + 1
         ELSE /\ Set(t, Resume(thr[t]))
              /\ UNCHANGED <<sent, nextThread>>
  /\ UNCHANGED <<state, segmentId, counter, handlerVars, stream, streams,
                 clientClosed, mockVars, envVars, published, histVars>>

\* Listen: stream, ctx and cb are captured under a.mu when the goroutine
\* starts running; a nil stream ends it
Listen(t) ==
  /\ At(t, "Listen")
  /\ IF stream = 0
       THEN Set(t, Done(thr[t]))
       ELSE Set(t, [thr[t] EXCEPT !.pc = "L_recv", !.stream = stream])
  /\ UNCHANGED rest

\* Listen: the ctx.Err() test at the top of the loop, before blocking
ListenCtx(t) ==
  /\ At(t, "L_recv")
  /\ IF ctxCancelled THEN Set(t, Done(thr[t])) ELSE Goto(t, "L_wait")
  /\ UNCHANGED rest

\* what held at the moment a read on session s failed with an error other
\* than io.EOF: the context was cancelled, s was no longer a.stream
\* (replaced by Restart, or cleared by Close), or s was the current session
FailedWhen(s) ==
  IF ctxCancelled THEN "cancelled"
  ELSE IF stream # s THEN "replaced"
  ELSE "current"

\* Listen: stream.Recv() returns a response, io.EOF (return), or another
\* error; fail keeps what held when the read failed
RecvFrom(t, kinds) ==
  /\ At(t, "L_wait")
  /\ \/ /\ responses < MaxResponses
        /\ responses' = responses + 1
        /\ \E resp \in kinds :
             Set(t, [thr[t] EXCEPT !.pc = "L_check",
                                   !.results = resp.results,
                                   !.feou = resp.eou])
     \/ /\ Set(t, Done(thr[t]))
        /\ UNCHANGED responses
     \/ /\ Set(t, [thr[t] EXCEPT !.pc = "L_err", !.fail = FailedWhen(thr[t].stream)])
        /\ UNCHANGED responses
  /\ UNCHANGED <<state, segmentId, counter, handlerVars, googleVars, mockVars,
                 rpcVars, provider, publishFaults, published, nextThread, histVars>>

Recv(t) == RecvFrom(t, Responses)

\* the same with the two-final responses among the provider's responses
RecvTwoFinals(t) == RecvFrom(t, Responses \cup TwoFinalResponses)

\* Listen, err != nil, without the comparison of a.stream with the
\* captured stream
RecvErrorIgnoresStream(t) ==
  /\ At(t, "L_err")
  /\ IF ctxCancelled
       THEN Set(t, Done(thr[t]))
       ELSE Set(t, [thr[t] EXCEPT !.pc = "OnError", !.ret = "done"])
  /\ UNCHANGED rest

\* Listen, err != nil: silent return if ctx is cancelled or a.stream is no
\* longer the captured stream, otherwise cb.OnError(err) and return
RecvError(t) ==
  /\ At(t, "L_err")
  /\ IF ctxCancelled \/ stream # thr[t].stream
       THEN Set(t, Done(thr[t]))
       ELSE Set(t, [thr[t] EXCEPT !.pc = "OnError", !.ret = "done"])
  /\ UNCHANGED rest

\* Listen, response read: silent return if a.stream was replaced; then
\* cb.OnEndOfUtterance() on END_OF_SINGLE_UTTERANCE, then the results
StreamCheck(t) ==
  /\ At(t, "L_check")
  /\ IF stream # thr[t].stream
       THEN Set(t, Done(thr[t]))
       ELSE IF thr[t].feou
         THEN Set(t, [thr[t] EXCEPT !.pc = "OnEndOfUtterance", !.ret = "L_results",
                                    !.feou = FALSE])
         ELSE Set(t, NextResult(thr[t]))
  /\ UNCHANGED rest

\* SendAudio: stream := a.stream under a.mu.RLock; nil is skipped
AdapterSendRead(t) ==
  /\ At(t, "AS_read")
  /\ IF stream = 0
       THEN \E e \in BOOLEAN : Set(t, AfterSend(thr[t], FALSE, e))
       ELSE Set(t, [thr[t] EXCEPT !.pc = "AS_send", !.old = stream])
  /\ UNCHANGED rest

\* SendAudio: stream.Send(audio) on the stream that was read
AdapterSend(t) ==
  /\ At(t, "AS_send")
  /\ \E o \in Outcomes, e \in BOOLEAN :
       /\ sent' = IF o = "ok" THEN [sent EXCEPT ![thr[t].old] = Append(@, "audio")]
                  ELSE sent
       /\ Set(t, AfterSend(thr[t], o = "fail", e))
  /\ UNCHANGED <<state, segmentId, counter, handlerVars, stream, streams,
                 sendClosed, clientClosed, mockVars, envVars, published,
                 nextThread, histVars>>

\* Close: a.stream = nil under a.mu, then CloseSend on the old stream and
\* client.Close()
GoogleClose(t) ==
  /\ At(t, "AdapterClose")
  /\ provider = "google"
  /\ stream' = 0
  /\ sendClosed' = IF stream # 0 THEN sendClosed \cup {stream} ELSE sendClosed
  /\ clientClosed' = TRUE
  /\ Goto(t, "Return")
  /\ UNCHANGED <<state, segmentId, counter, handlerVars, streams, sent,
                 mockVars, envVars, published, nextThread, histVars>>


(* ----------------- audio.Handler: SendAudio, Close, Drop --------------- *)
\* frames the client may send, the first included
FrameBound == IF provider = "mock" THEN MaxMockFrames ELSE MaxFrames

\* time.Since(startTime) > h.limits.MaxDuration, as the clock decides
DurationOutcomes == BOOLEAN

\* SendAudio that tests the byte total as it was before the chunk
SendAudioTestsOldTotal(t) ==
  /\ At(t, "SendAudio")
  /\ lastAudioOffsetMs' = thr[t].foff
  /\ audioBytes' = audioBytes + thr[t].len
  /\ \E late \in DurationOutcomes :
       Set(t, [thr[t] EXCEPT !.len = 0, !.foff = 0,
                 !.pc = IF LimitAudioBytes > 0 /\ audioBytes > LimitAudioBytes THEN "SA_drop"
                        ELSE IF late THEN "SA_drop"
                        ELSE IF provider = "google" THEN "AS_read" ELSE "MS_send",
                 !.fail = IF LimitAudioBytes > 0 /\ audioBytes > LimitAudioBytes
                            THEN "max audio bytes exceeded"
                          ELSE IF late THEN "max duration exceeded"
                          ELSE ""])
  /\ UNCHANGED <<state, segmentId, counter, partialCount, pendingRestart,
                 continuousMode, utteranceCount, googleVars, mockVars, envVars,
                 published, nextThread, histVars>>

\* SendAudio: under h.mu the offset and the byte total are updated and the
\* total and start time copied; then the two limit tests on the copies
SendAudio(t) ==
  /\ At(t, "SendAudio")
  /\ lastAudioOffsetMs' = thr[t].foff
  /\ audioBytes' = audioBytes + thr[t].len
  /\ \E late \in DurationOutcomes :
       Set(t, [thr[t] EXCEPT !.len = 0, !.foff = 0,
                 !.pc = IF LimitAudioBytes > 0 /\ audioBytes' > LimitAudioBytes THEN "SA_drop"
                        ELSE IF late THEN "SA_drop"
                        ELSE IF provider = "google" THEN "AS_read" ELSE "MS_send",
                 !.fail = IF LimitAudioBytes > 0 /\ audioBytes' > LimitAudioBytes
                            THEN "max audio bytes exceeded"
                          ELSE IF late THEN "max duration exceeded"
                          ELSE ""])
  /\ UNCHANGED <<state, segmentId, counter, partialCount, pendingRestart,
                 continuousMode, utteranceCount, googleVars, mockVars, envVars,
                 published, nextThread, histVars>>

\* SendAudio: h.DropSegment(reason) and the error return
SendAudioDrop(t) ==
  /\ At(t, "SA_drop")
  /\ state' = DropState(state)
  /\ Note(state')
  /\ \E e \in BOOLEAN : Set(t, AfterSend(thr[t], TRUE, e))
  /\ UNCHANGED <<segmentId, counter, handlerVars, googleVars, mockVars,
                 envVars, published, nextThread, restarts, segSess>>

\* Close: h.lifecycle.Close(), then h.adapter.Close()
HandlerClose(t) ==
  /\ At(t, "Close")
  /\ state' = CloseState(state)
  /\ Note(state')
  /\ Goto(t, "AdapterClose")
  /\ UNCHANGED <<segmentId, counter, handlerVars, googleVars, mockVars,
                 envVars, published, nextThread, restarts, segSess>>

(* -------------------------- Server.StreamAudio ------------------------- *)
\* handler.Start(ctx): adapter.Start opens the first session and sends its
\* configuration; an error is returned to the RPC layer. Then the deferred
\* Close is registered and `go ga.Listen()` runs for the Google adapter.
Start(t) ==
  /\ At(t, "Start")
  /\ \E o \in Outcomes :
       IF o = "fail" /\ provider = "google"
         THEN /\ Set(t, [thr[t] EXCEPT !.pc = "Return", !.fail = "startErr"])
              /\ UNCHANGED <<stream, streams, sent, nextThread>>
         ELSE IF provider = "google"
           THEN /\ stream' = 1
                /\ streams' = 1
                /\ sent' = [sent EXCEPT ![1] = <<"config">>]
                /\ Spawn(t, [thr[t] EXCEPT !.pc = "FirstFrame"], [Idle EXCEPT !.pc = "Listen"])
                /\ nextThread' = nextThread + 1
           ELSE /\ Goto(t, "FirstFrame")
                /\ UNCHANGED <<stream, streams, sent, nextThread>>
  /\ UNCHANGED <<state, segmentId, counter, handlerVars, sendClosed,
                 clientClosed, mockVars, envVars, published, histVars>>

\* the first frame's audio, if any, goes to handler.SendAudio; its
\* end_of_utterance flag is not looked at
FirstFrame(t) ==
  /\ At(t, "FirstFrame")
  /\ \E n \in AudioLens :
       IF n > 0
         THEN Set(t, [thr[t] EXCEPT !.pc = "SendAudio", !.ret = "first",
                                    !.len = n, !.foff = frames])
         ELSE Goto(t, "Recv")
  /\ UNCHANGED rest

\* one iteration of the frame loop: stream.Recv() gives io.EOF (break), an
\* error (drop, return nil) or a frame; with a frame ctx.Err() is tested
\* (drop, return nil), then audio is forwarded and end_of_utterance breaks
FrameLoop(t) ==
  /\ At(t, "Recv")
  /\ \/ /\ Set(t, [thr[t] EXCEPT !.pc = "Ack", !.fail = "eof"])
        /\ UNCHANGED frames
     \/ /\ Set(t, [thr[t] EXCEPT !.pc = "Drop", !.fail = "recvErr"])
        /\ UNCHANGED frames
     \/ /\ frames < FrameBound
        /\ frames' = frames + 1
        /\ \E n \in AudioLens, e \in BOOLEAN :
             IF ctxCancelled
               THEN Set(t, [thr[t] EXCEPT !.pc = "Drop", !.fail = "cancelled"])
             ELSE IF n > 0
               THEN Set(t, [thr[t] EXCEPT !.pc = "SendAudio", !.ret = "loop",
                                          !.len = n, !.foff = frames'])
               ELSE IF e THEN Set(t, [thr[t] EXCEPT !.pc = "Ack", !.fail = "eou"])
                         ELSE Goto(t, "Recv")
  /\ UNCHANGED <<state, segmentId, counter, handlerVars, googleVars, mockVars,
                 ctxCancelled, acked, rpcErr, provider, publishFaults, responses, published,
                 nextThread, histVars>>

\* handler.DropSegment(reason) on the driver's error paths; return nil
\* follows, which runs the deferred handler.Close()
DropSegment(t) ==
  /\ At(t, "Drop")
  /\ state' = DropState(state)
  /\ Note(state')
  /\ Goto(t, "Close")
  /\ UNCHANGED <<segmentId, counter, handlerVars, googleVars, mockVars,
                 envVars, published, nextThread, restarts, segSess>>

\* the end of StreamAudio sending the ack only when the segment was not
\* dropped
AckUnlessDropped(t) ==
  /\ At(t, "Ack")
  /\ acked' = IF state = StateDropped THEN acked ELSE Append(acked, InteractionId)
  /\ Goto(t, "Close")
  /\ UNCHANGED <<state, segmentId, counter, handlerVars, googleVars, mockVars,
                 ctxCancelled, frames, rpcErr, provider, publishFaults, responses, published,
                 nextThread, histVars>>

\* stream.SendAndClose(&pb.StreamAck{InteractionId: interactionId}) after
\* the loop
Ack(t) ==
  /\ At(t, "Ack")
  /\ acked' = Append(acked, InteractionId)
  /\ Goto(t, "Close")
  /\ UNCHANGED <<state, segmentId, counter, handlerVars, googleVars, mockVars,
                 ctxCancelled, frames, rpcErr, provider, publishFaults, responses, published,
                 nextThread, histVars>>

\* StreamAudio returns: the RPC layer cancels the stream's context
Return(t) ==
  /\ At(t, "Return")
  /\ rpcErr' = (thr[t].fail \in {"startErr", "firstSendErr"})
  /\ ctxCancelled' = TRUE
  /\ Set(t, Done(thr[t]))
  /\ UNCHANGED <<state, segmentId, counter, handlerVars, googleVars, mockVars,
                 frames, acked, provider, publishFaults, responses, published, nextThread,
                 histVars>>

\* the client goes away: the stream's context is cancelled
CancelCtx ==
  /\ ~ctxCancelled
  /\ thr[Driver].pc # "done"
  /\ ctxCancelled' = TRUE
  /\ UNCHANGED <<state, segmentId, counter, handlerVars, googleVars, mockVars,
                 frames, acked, rpcErr, provider, publishFaults, responses, published, thr,
                 nextThread, histVars>>


(* ---------------------------- mock.Adapter ----------------------------- *)
\* a.mu is free
Unlocked == amu = -1

\* SendAudio (whole body under a.mu): nothing once closed; otherwise one
\* goroutine per frame: the next partial, or, when all partials were handed
\* out and no final was scheduled yet, the final with the end of utterance
MockSendAudio(t) ==
  /\ At(t, "MS_send")
  /\ Unlocked
  /\ \E e \in BOOLEAN :
     IF closed
       THEN /\ Set(t, AfterSend(thr[t], FALSE, e))
            /\ UNCHANGED <<audioReceived, partialIndex, finalSent,
                           endOfUtteranceSent, nextThread>>
       ELSE /\ audioReceived' = audioReceived + 1
            /\ IF partialIndex < utterance
                 THEN /\ partialIndex' = partialIndex + 1
                      /\ Spawn(t, AfterSend(thr[t], FALSE, e), [Idle EXCEPT !.pc = "M_partial"])
                      /\ nextThread' = nextThread + 1
                      /\ UNCHANGED <<finalSent, endOfUtteranceSent>>
                 ELSE IF ~finalSent
                   THEN /\ finalSent' = TRUE
                        /\ endOfUtteranceSent' = TRUE
                        /\ Spawn(t, AfterSend(thr[t], FALSE, e), [Idle EXCEPT !.pc = "M_final"])
                        /\ nextThread' = nextThread + 1
                        /\ UNCHANGED partialIndex
                   ELSE /\ Set(t, AfterSend(thr[t], FALSE, e))
                        /\ UNCHANGED <<partialIndex, finalSent,
                                       endOfUtteranceSent, nextThread>>
  /\ UNCHANGED <<state, segmentId, counter, handlerVars, googleVars, closed,
                 utterance, amu, testCallback, envVars, published,
                 histVars>>

\* the partial goroutine: a.mu.Lock(); cb.OnPartial(text) is called with
\* a.mu held unless the adapter was closed
MockPartial(t) ==
  /\ At(t, "M_partial")
  /\ Unlocked
  /\ IF closed
       THEN Set(t, Done(thr[t])) /\ UNCHANGED amu
       ELSE /\ amu' = t
            /\ Set(t, [thr[t] EXCEPT !.pc = "OnPartial", !.ret = "M_unlock"])
  /\ UNCHANGED <<state, segmentId, counter, handlerVars, googleVars, closed,
                 partialIndex, finalSent, endOfUtteranceSent, audioReceived,
                 utterance, testCallback, envVars, published, nextThread,
                 histVars>>

\* the partial goroutine: a.mu.Unlock() after the callback returned
MockUnlock(t) ==
  /\ At(t, "M_unlock")
  /\ amu' = -1
  /\ Set(t, Done(thr[t]))
  /\ UNCHANGED <<state, segmentId, counter, handlerVars, googleVars, closed,
                 partialIndex, finalSent, endOfUtteranceSent, audioReceived,
                 utterance, testCallback, envVars, published, nextThread,
                 histVars>>

\* the final goroutine: cb, closed and the utterance are copied under a.mu,
\* which is released before cb.OnFinal and cb.OnEndOfUtterance are called
MockFinal(t) ==
  /\ At(t, "M_final")
  /\ Unlocked
  /\ IF closed
       THEN Set(t, Done(thr[t]))
       ELSE Set(t, [thr[t] EXCEPT !.pc = "OnFinal", !.ret = "M_eou"])
  /\ UNCHANGED rest

\* Close (under a.mu): idempotent; a final that was not scheduled yet is
\* sent from a new goroutine that calls a.cb.OnFinal
MockClose(t) ==
  /\ At(t, "AdapterClose")
  /\ provider = "mock"
  /\ Unlocked
  /\ closed' = TRUE
  /\ IF ~closed /\ ~finalSent
       THEN /\ finalSent' = TRUE
            /\ Spawn(t, [thr[t] EXCEPT !.pc = "Return"],
                        [Idle EXCEPT !.pc = "OnFinal", !.ret = "done"])
            /\ nextThread' = nextThread + 1
       ELSE /\ Goto(t, "Return")
            /\ UNCHANGED <<finalSent, nextThread>>
  /\ UNCHANGED <<state, segmentId, counter, handlerVars, googleVars,
                 partialIndex, endOfUtteranceSent, audioReceived, utterance,
                 amu, testCallback, envVars, published, histVars>>

(* --------------------------- specification ----------------------------- *)
\* segment ids the generator can hand out within the bounds
MaxSegments == 2 * MaxResponses + 2
Segments == 1..MaxSegments

\* StreamAudio has read the first frame, taken segment id 1 from the
\* generator and constructed adapter and handler; continuous mode is set
\* when SingleUtterance is off
InitCommon ==
  /\ state = StateOpen
  /\ segmentId = 1
  /\ counter = 1
  /\ audioBytes = 0
  /\ partialCount = 0
  /\ lastAudioOffsetMs = 0
  /\ pendingRestart = FALSE
  /\ continuousMode \in BOOLEAN
  /\ utteranceCount = 0
  /\ stream = 0
  /\ streams = 0
  /\ sent = [s \in 1..MaxStreams |-> <<>>]
  /\ sendClosed = {}
  /\ clientClosed = FALSE
  /\ closed = FALSE
  /\ partialIndex = 0
  /\ finalSent = FALSE
  /\ endOfUtteranceSent = FALSE
  /\ audioReceived = 0
  /\ amu = -1
  /\ testCallback = NoCallbacks
  /\ ctxCancelled = FALSE
  /\ frames = 1
  /\ acked = <<>>
  /\ rpcErr = FALSE
  /\ responses = 0
  /\ published = <<>>
  /\ thr = [t \in Threads |-> IF t = Driver THEN [Idle EXCEPT !.pc = "Start"] ELSE Idle]
  /\ nextThread = 1
  /\ wasDropped = {}
  /\ errDropped = {}
  /\ wasTerminal = {}
  /\ segState = [s \in Segments |-> IF s = 1 THEN StateOpen ELSE "none"]
  /\ restarts = 0
  /\ segSess = [s \in Segments |-> 0]

\* a stream of a server configured with the Google adapter, or with the
\* mock adapter, for which mock.New() took one of the default utterances
InitAdapter ==
  /\ InitCommon
  /\ provider \in {"google", "mock"}
  /\ utterance \in IF provider = "google" THEN {0}
                   ELSE {DefaultUtterances[i] : i \in DOMAIN DefaultUtterances}

\* a bus on which every publish call succeeds
Init ==
  /\ InitAdapter
  /\ publishFaults = 0

\* a bus on which publish calls may fail
InitUnreliableBus ==
  /\ InitAdapter
  /\ publishFaults = MaxPublishFailures

HandlerStep(t) ==
  \/ OnPartial(t) \/ PartialCount(t) \/ PartialDrop(t) \/ PartialSegmentId(t)
  \/ PublishPartial(t)
  \/ OnFinal(t) \/ FinalEvent(t) \/ PublishFinal(t)
  \/ FinalFlags(t)
  \/ TransitionClose(t) \/ TransitionCounters(t) \/ TransitionReset(t)
  \/ OnEndOfUtterance(t) \/ OnError(t)
  \/ SendAudio(t) \/ SendAudioDrop(t) \/ HandlerClose(t)

GoogleStep(t) ==
  \/ Restart(t) \/ RestartConfig(t)
  \/ Listen(t) \/ ListenCtx(t) \/ Recv(t) \/ RecvError(t) \/ StreamCheck(t)
  \/ AdapterSendRead(t) \/ AdapterSend(t) \/ GoogleClose(t)

MockStep(t) ==
  \/ MockSendAudio(t) \/ MockPartial(t) \/ MockUnlock(t) \/ MockFinal(t)
  \/ MockClose(t)

DriverStep(t) ==
  \/ Start(t) \/ FirstFrame(t) \/ FrameLoop(t) \/ DropSegment(t) \/ Ack(t)
  \/ Return(t)

Next ==
  \/ \E t \in Threads : HandlerStep(t)
  \/ \E t \in Threads : GoogleStep(t)
  \/ \E t \in Threads : MockStep(t)
  \/ \E t \in Threads : DriverStep(t)
  \/ CancelCtx

Spec == Init /\ [][Next]_vars

\* the stream over an unreliable bus, with a client that does not cancel the
\* RPC (the context is cancelled only by the return of StreamAudio)
NextUnreliableBus ==
  \/ \E t \in Threads : HandlerStep(t)
  \/ \E t \in Threads : GoogleStep(t)
  \/ \E t \in Threads : MockStep(t)
  \/ \E t \in Threads : DriverStep(t)

SpecUnreliableBus == InitUnreliableBus /\ [][NextUnreliableBus]_vars

\* the stream with a provider that also delivers two-final responses, again
\* with a client that does not cancel the RPC
GoogleStepTwoFinals(t) ==
  \/ Restart(t) \/ RestartConfig(t)
  \/ Listen(t) \/ ListenCtx(t) \/ RecvTwoFinals(t) \/ RecvError(t)
  \/ StreamCheck(t)
  \/ AdapterSendRead(t) \/ AdapterSend(t) \/ GoogleClose(t)

NextTwoFinals ==
  \/ \E t \in Threads : HandlerStep(t)
  \/ \E t \in Threads : GoogleStepTwoFinals(t)
  \/ \E t \in Threads : MockStep(t)
  \/ \E t \in Threads : DriverStep(t)

SpecTwoFinals == Init /\ [][NextTwoFinals]_vars

TypeOK ==
  /\ state \in States
  /\ segmentId \in Segments
  /\ counter \in Segments
  /\ nextThread \in 1..(MaxWorkers + 1)
  /\ streams \in 0..MaxStreams
  /\ stream \in 0..MaxStreams

(* ------------------- segment package, called directly ------------------ *)
\* goroutines that call the exported methods of one Lifecycle and of the
\* Generator it takes its segment ids from, one call each
MaxCallers == 3
Callers == 1..MaxCallers
\* interaction ids passed to Generator.Next, as sequences of tokens; the last
\* one is itself of the form of a segment id
InteractionIds == { <<"int-A">>, <<"int-B">>, <<"int-A", "-seg-", "1">> }

\* the decimal digits of n, as %d prints them
DigitChars == <<"0", "1", "2", "3", "4", "5", "6", "7", "8", "9">>
RECURSIVE Digits(_)
Digits(n) == IF n < 10 THEN <<DigitChars[n + 1]>>
             ELSE Digits(n \div 10) \o <<DigitChars[(n % 10) + 1]>>

\* fmt.Sprintf("%s-seg-%d", interactionId, n)
Sprintf(interactionId, n) == interactionId \o <<"-seg-">> \o Digits(n)

\* a caller: pc "call" before its call, "reset" between Next and Reset,
\* "done" after it; op: the method called; err, ok: what it returned;
\* seg: l.segmentID when the call ran; arg: the interaction id passed to
\* Next; n, id: the counter value Next read and the id it returned; was:
\* l.state when the call ran
Caller == [pc |-> "call", op |-> "", err |-> "", ok |-> FALSE, seg |-> <<>>,
           arg |-> <<>>, n |-> 0, id |-> <<>>, was |-> ""]

\* the variables of the stream, which the callers do not touch
streamVars == <<handlerVars, googleVars, mockVars, envVars, published,
                nextThread, histVars>>

\* Lifecycle.EmitPartial: the whole body under l.mu
CallEmitPartial(t) ==
  /\ At(t, "call")
  /\ Set(t, [thr[t] EXCEPT !.pc = "done", !.op = "EmitPartial",
                           !.err = EmitPartial(state), !.seg = segmentId,
                           !.was = state])
  /\ UNCHANGED <<state, segmentId, counter, streamVars>>

\* Lifecycle.EmitFinal
CallEmitFinal(t) ==
  /\ At(t, "call")
  /\ state' = EmitFinalState(state)
  /\ Set(t, [thr[t] EXCEPT !.pc = "done", !.op = "EmitFinal",
                           !.err = EmitFinal(state), !.seg = segmentId,
                           !.was = state])
  /\ UNCHANGED <<segmentId, counter, streamVars>>

\* Lifecycle.Close
CallClose(t) ==
  /\ At(t, "call")
  /\ state' = CloseState(state)
  /\ Set(t, [thr[t] EXCEPT !.pc = "done", !.op = "Close", !.seg = segmentId,
                           !.was = state])
  /\ UNCHANGED <<segmentId, counter, streamVars>>

\* Lifecycle.Drop
CallDrop(t) ==
  /\ At(t, "call")
  /\ state' = DropState(state)
  /\ Set(t, [thr[t] EXCEPT !.pc = "done", !.op = "Drop", !.ok = Drop(state),
                           !.seg = segmentId, !.was = state])
  /\ UNCHANGED <<segmentId, counter, streamVars>>

\* Generator.Next that returns the incremented value without storing it
GeneratorNextLosesUpdate(t) ==
  /\ At(t, "call")
  /\ \E i \in InteractionIds :
       Set(t, [thr[t] EXCEPT !.pc = "reset", !.op = "Next", !.arg = i,
                             !.n = counter + 1,
                             !.id = Sprintf(i, counter + 1)])
  /\ UNCHANGED <<state, segmentId, counter, streamVars>>

\* Generator.Next that numbers the segments of each interaction id apart
GeneratorNextPerInteraction(t) ==
  /\ At(t, "call")
  /\ counter' = counter + 1
  /\ \E i \in InteractionIds :
       LET k == Cardinality({u \in Callers : thr[u].op = "Next" /\ thr[u].arg = i}) + 1
       IN Set(t, [thr[t] EXCEPT !.pc = "reset", !.op = "Next", !.arg = i,
                                !.n = k, !.id = Sprintf(i, k)])
  /\ UNCHANGED <<state, segmentId, streamVars>>

\* Generator.Next: atomic.AddUint64(&g.counter, 1), then the formatting
GeneratorNext(t) ==
  /\ At(t, "call")
  /\ counter' = counter + 1
  /\ \E i \in InteractionIds :
       Set(t, [thr[t] EXCEPT !.pc = "reset", !.op = "Next", !.arg = i,
                             !.n = counter', !.id = Sprintf(i, counter')])
  /\ UNCHANGED <<state, segmentId, streamVars>>

\* Lifecycle.Reset that reopens the segment under its old id
CallResetKeepsId(t) ==
  /\ At(t, "reset")
  /\ state' = StateOpen
  /\ Set(t, [thr[t] EXCEPT !.pc = "done", !.seg = segmentId, !.was = state])
  /\ UNCHANGED <<segmentId, counter, streamVars>>

\* Lifecycle.Reset(newSegmentId) with the id Next returned: id and state are
\* assigned under one hold of l.mu
CallReset(t) ==
  /\ At(t, "reset")
  /\ segmentId' = thr[t].id
  /\ state' = StateOpen
  /\ Set(t, [thr[t] EXCEPT !.pc = "done", !.seg = segmentId, !.was = state])
  /\ UNCHANGED <<counter, streamVars>>

\* everything outside the segment package, at rest
InitNoStream ==
  /\ audioBytes = 0
  /\ partialCount = 0
  /\ lastAudioOffsetMs = 0
  /\ pendingRestart = FALSE
  /\ continuousMode = FALSE
  /\ utteranceCount = 0
  /\ stream = 0
  /\ streams = 0
  /\ sent = [s \in 1..MaxStreams |-> <<>>]
  /\ sendClosed = {}
  /\ clientClosed = FALSE
  /\ ctxCancelled = FALSE
  /\ frames = 0
  /\ acked = <<>>
  /\ rpcErr = FALSE
  /\ responses = 0
  /\ publishFaults = 0
  /\ nextThread = 1
  /\ wasDropped = {}
  /\ errDropped = {}
  /\ wasTerminal = {}
  /\ segState = [s \in Segments |-> "none"]
  /\ restarts = 0
  /\ segSess = [s \in Segments |-> 0]

\* an unused mock adapter
InitNoAdapter ==
  /\ provider = "mock"
  /\ utterance = DefaultUtterances[1]
  /\ closed = FALSE
  /\ partialIndex = 0
  /\ finalSent = FALSE
  /\ endOfUtteranceSent = FALSE
  /\ audioReceived = 0
  /\ amu = -1
  /\ testCallback = NoCallbacks

\* NewLifecycle(id) with the first id of a new generator: OPEN
InitLifecycle ==
  /\ InitNoStream
  /\ InitNoAdapter
  /\ published = <<>>
  /\ counter = 1
  /\ segmentId = Sprintf(<<"int-A">>, 1)
  /\ state = StateOpen
  /\ thr = [t \in Callers |-> Caller]

NextLifecycle ==
  \E t \in Callers :
    \/ CallEmitPartial(t) \/ CallEmitFinal(t) \/ CallClose(t) \/ CallDrop(t)
    \/ GeneratorNext(t) \/ CallReset(t)

SpecLifecycle == InitLifecycle /\ [][NextLifecycle]_vars

(* ------------------- events.Publisher, called directly ----------------- *)
\* the publishers New returns: log-only (nil config, Enabled off or no
\* brokers: enabled false, no writers) and connected (both writers set)
Publishers == { [enabled |-> FALSE, writers |-> FALSE],
                [enabled |-> TRUE,  writers |-> TRUE] }
\* event values passed to PublishPartial / PublishFinal: a transcript event,
\* and a value encoding/json cannot serialise (a channel)
EventValues == {"transcript", "chan"}

\* json.Marshal(event): the payload, or the error
Marshal(event) ==
  IF event = "chan"
    THEN [err |-> "json: unsupported type", payload |-> <<>>]
    ELSE [err |-> "nil", payload |-> <<"{", event, "}">>]

\* publish that tests for log-only mode before it serialises the event
publishTestsEnabledFirst(p, eventType, event, o) ==
  LET m == Marshal(event) IN
  IF ~p.enabled \/ ~p.writers THEN [err |-> "nil", msg |-> <<>>]
  ELSE IF m.err # "nil" THEN [err |-> m.err, msg |-> <<>>]
  ELSE IF o = "ok"
    THEN [err |-> "nil",
          msg |-> <<[kind |-> eventType, payload |-> m.payload]>>]
    ELSE [err |-> "write failed", msg |-> <<>>]

\* Publisher.publish: the error it returns and the message it writes to the
\* topic's writer (<<>> = none), when writer.WriteMessages would return o
publish(p, eventType, event, o) ==
  LET m == Marshal(event) IN
  IF m.err # "nil" THEN [err |-> m.err, msg |-> <<>>]
  ELSE IF ~p.enabled \/ ~p.writers THEN [err |-> "nil", msg |-> <<>>]
  ELSE IF o = "ok"
    THEN [err |-> "nil",
          msg |-> <<[kind |-> eventType, payload |-> m.payload]>>]
    ELSE [err |-> "write failed", msg |-> <<>>]

\* a caller of the publisher: the publisher p and the event it passed, the
\* error it got back
PublishCaller == [pc |-> "call", op |-> "", p |-> [enabled |-> FALSE, writers |-> FALSE],
                  event |-> "", err |-> ""]

\* one call of publish on some publisher with some event
PublishCall(t, eventType, name) ==
  /\ At(t, "call")
  /\ \E p \in Publishers, event \in EventValues, o \in Outcomes :
       LET r == publish(p, eventType, event, o) IN
       /\ published' = published \o r.msg
       /\ Set(t, [thr[t] EXCEPT !.pc = "done", !.op = name, !.p = p,
                                !.event = event, !.err = r.err])
  /\ UNCHANGED <<state, segmentId, counter, handlerVars, googleVars, mockVars,
                 envVars, nextThread, histVars>>

\* Publisher.PublishPartial
PublisherPublishPartial(t) == PublishCall(t, "partial", "PublishPartial")

\* Publisher.PublishFinal
PublisherPublishFinal(t) == PublishCall(t, "final", "PublishFinal")

InitPublisher ==
  /\ InitNoStream
  /\ InitNoAdapter
  /\ published = <<>>
  /\ counter = 1
  /\ segmentId = 1
  /\ state = StateOpen
  /\ thr = [t \in Callers |-> PublishCaller]

NextPublisher ==
  \E t \in Callers : PublisherPublishPartial(t) \/ PublisherPublishFinal(t)

SpecPublisher == InitPublisher /\ [][NextPublisher]_vars

(* -------------------- mock.Adapter, called directly -------------------- *)
\* calls (SendAudio, Close) the client makes on the adapter
MaxClientCalls == MaxMockFrames + 2
\* where the client is between two calls
ClientPcs == {"Recv", "Ack", "Return"}

\* the client calls adapter.SendAudio
ClientSendAudio(t) ==
  /\ t = Driver
  /\ thr[t].pc \in ClientPcs
  /\ frames < MaxClientCalls
  /\ frames' = frames + 1
  /\ Set(t, [Idle EXCEPT !.pc = "MS_send"])
  /\ UNCHANGED <<state, segmentId, counter, handlerVars, googleVars, mockVars,
                 ctxCancelled, acked, rpcErr, provider, responses,
                 publishFaults, published, nextThread, histVars>>

\* the client calls adapter.Close
ClientClose(t) ==
  /\ t = Driver
  /\ thr[t].pc \in ClientPcs
  /\ frames < MaxClientCalls
  /\ frames' = frames + 1
  /\ Set(t, [Idle EXCEPT !.pc = "AdapterClose"])
  /\ UNCHANGED <<state, segmentId, counter, handlerVars, googleVars, mockVars,
                 ctxCancelled, acked, rpcErr, provider, responses,
                 publishFaults, published, nextThread, histVars>>

\* what the callbacks of a testCallback leave unchanged
testRest == <<state, segmentId, counter, handlerVars, googleVars, closed,
              partialIndex, finalSent, endOfUtteranceSent, audioReceived,
              utterance, amu, envVars, published, nextThread, histVars>>

\* testCallback.OnPartial
TestOnPartial(t) ==
  /\ At(t, "OnPartial")
  /\ testCallback' = [testCallback EXCEPT !.partials = @ + 1]
  /\ Set(t, Resume(thr[t]))
  /\ UNCHANGED testRest

\* testCallback.OnFinal
TestOnFinal(t) ==
  /\ At(t, "OnFinal")
  /\ testCallback' = [testCallback EXCEPT !.finals = @ + 1]
  /\ Set(t, Resume(thr[t]))
  /\ UNCHANGED testRest

\* testCallback.OnEndOfUtterance
TestOnEndOfUtterance(t) ==
  /\ At(t, "OnEndOfUtterance")
  /\ testCallback' = [testCallback EXCEPT !.utterances = @ + 1]
  /\ Set(t, Resume(thr[t]))
  /\ UNCHANGED testRest

\* mock.New() took one of the default utterances and Start stored the
\* testCallback
InitMock ==
  /\ InitNoStream
  /\ provider = "mock"
  /\ utterance \in {DefaultUtterances[i] : i \in DOMAIN DefaultUtterances}
  /\ closed = FALSE
  /\ partialIndex = 0
  /\ finalSent = FALSE
  /\ endOfUtteranceSent = FALSE
  /\ audioReceived = 0
  /\ amu = -1
  /\ testCallback = NoCallbacks
  /\ published = <<>>
  /\ counter = 1
  /\ segmentId = 1
  /\ state = StateOpen
  /\ thr = [t \in Threads |-> IF t = Driver THEN [Idle EXCEPT !.pc = "Recv"] ELSE Idle]

NextMock ==
  \/ \E t \in Threads : MockStep(t)
  \/ \E t \in Threads : ClientSendAudio(t) \/ ClientClose(t)
  \/ \E t \in Threads :
        TestOnPartial(t) \/ TestOnFinal(t) \/ TestOnEndOfUtterance(t)

SpecMock == InitMock /\ [][NextMock]_vars

(* ------------------------------ properties ----------------------------- *)
Events == DOMAIN published
IsFinal(i) == published[i].kind = "final"
IsPartial(i) == published[i].kind = "partial"
HasFinal(s) == \E i \in Events : IsFinal(i) /\ published[i].seg = s
\* the driver returned and every goroutine it left behind has finished
StreamEnded == \A t \in Threads : thr[t].pc \in {"idle", "done"}
\* positions inside handleUtteranceTransition / handleContinuousModeTransition
\* and adapter.Restart
RolloverPcs == {"U_close", "U_counters", "U_reset", "C_close", "C_counters",
                "C_reset", "R_new", "R_config"}

\* C1: for every segment id, at most one final event with that id is ever
\* published, whatever the interleaving, the mode and the number of rollovers
C1_AtMostOneFinalPerSegment ==
  \A i, j \in Events :
    (IsFinal(i) /\ IsFinal(j) /\ published[i].seg = published[j].seg) => i = j

\* C1 witness: the lifecycle is in FINAL_EMITTED with its final published
\* while another final for the same segment is being delivered
C1_Witness ==
  /\ state = StateFinalEmitted
  /\ HasFinal(segmentId)
  /\ \E t \in Threads : thr[t].pc = "OnFinal"

\* C2: every partial event of a segment is published before the final event
\* of that segment
C2_PartialsBeforeFinal ==
  \A i, j \in Events :
    (IsPartial(i) /\ IsFinal(j) /\ published[i].seg = published[j].seg) => i < j

\* C3: once the lifecycle of a segment has entered CLOSED or DROPPED, no
\* event is published for that segment
C3_NoEventAfterTerminal ==
  [][Len(published') > Len(published)
       => published'[Len(published')].seg \notin wasTerminal]_vars

\* C4: a segment whose lifecycle was ever DROPPED has no final event
C4_DroppedHasNoFinal ==
  \A i \in Events : IsFinal(i) => published[i].seg \notin wasDropped

\* C5: when the stream has ended every segment either has a final and ended
\* CLOSED, or has no final and ended DROPPED
C5_FinalAndClosedOrDropped ==
  StreamEnded =>
    \A s \in Segments :
      segState[s] # "none" =>
        \/ HasFinal(s) /\ segState[s] = StateClosed
        \/ ~HasFinal(s) /\ segState[s] = StateDropped

\* C6: no event of a segment that a restart rollover opened on a new provider
\* session comes from another (older) session
C6_NoStaleHypothesisInNewSegment ==
  \A i \in Events :
    segSess[published[i].seg] # 0 => published[i].src = segSess[published[i].seg]

C9_NoRestartInContinuousMode ==
  continuousMode => restarts = 0

\* C10: the final event of a segment is published before every event of the
\* segment that follows it
C10_RolloverMonotone ==
  \A i, j \in Events :
    (IsFinal(i) /\ published[j].seg = published[i].seg + 1) => i < j

\* C10 witness: a partial of the second segment was published, after the
\* final of the first
C10_Witness ==
  \E i, j \in Events :
    /\ IsFinal(i) /\ published[i].seg = 1
    /\ IsPartial(j) /\ published[j].seg = 2
    /\ i < j

\* audio chunks forwarded to the provider so far, on any session
Forwarded ==
  IF provider = "mock" THEN audioReceived
  ELSE Cardinality({<<n, i>> \in (1..MaxStreams) \X (1..(MaxFrames + 2)) :
                      i \in DOMAIN sent[n] /\ sent[n][i] = "audio"})

\* C11: a SendAudio call adds its chunk to the running byte total before the
\* test; when the total (the rejected chunk included) is above the limit the
\* call drops the segment (DROPPED unless the lifecycle is already terminal),
\* returns an error and forwards nothing to the adapter; when the total is at
\* or below the limit, equality included, the call is not rejected for bytes
C11_ByteLimitRejectsChunk ==
  [][\A t \in Threads :
       /\ (thr[t].pc = "SendAudio" /\ thr'[t].pc # "SendAudio") =>
            /\ audioBytes' = audioBytes + thr[t].len
            /\ Forwarded' = Forwarded
            /\ (audioBytes' > LimitAudioBytes) <=>
                 (thr'[t].pc = "SA_drop" /\ thr'[t].fail = "max audio bytes exceeded")
            /\ (thr'[t].pc # "SA_drop") => thr'[t].pc \in {"AS_read", "MS_send"}
       /\ (thr[t].pc = "SA_drop" /\ thr'[t].pc # "SA_drop") =>
            /\ state' = (IF IsTerminal(state) THEN state ELSE StateDropped)
            /\ Forwarded' = Forwarded
            /\ thr'[t].pc \in {"Drop", "Close"}
            /\ thr'[t].fail \in {"sendErr", "firstSendErr"}
    ]_vars

\* C11 witness: the second chunk took the total above the limit, the segment
\* is DROPPED, the call failed and only the first chunk reached the provider
C11_Witness ==
  /\ thr[Driver].pc = "Drop"
  /\ thr[Driver].fail = "sendErr"
  /\ frames = 2
  /\ audioBytes > LimitAudioBytes
  /\ state = StateDropped
  /\ Forwarded = 1

\* partial events published under segment id s
PartialsOf(s) == Cardinality({i \in Events : IsPartial(i) /\ published[i].seg = s})

\* C12: at most max_partials partial events are published per segment: the
\* partial that takes the count above the limit drops the segment and is not
\* published
C12_AtMostMaxPartialsPerSegment ==
  \A s \in Segments : PartialsOf(s) <= LimitPartials

\* C13: whenever a partial or a final event is published, the byte total is
\* at most max_audio_bytes and the partial count at most max_partials
C13_PublishWithinLimits ==
  [][Len(published') > Len(published) =>
       /\ audioBytes <= LimitAudioBytes
       /\ partialCount <= LimitPartials
    ]_vars

\* C14: an OnError delivered while the current segment is OPEN moves the
\* lifecycle to DROPPED and publishes nothing; no final is ever published
\* for a segment dropped that way, the events already published stay, and
\* the driver still sends the terminal ack when its input ends normally
C14_ErrorDropSuppressesFinal ==
  [][/\ \A t \in Threads :
          (thr[t].pc = "OnError" /\ thr'[t].pc # "OnError" /\ state = StateOpen) =>
             /\ state' = StateDropped
             /\ segmentId \in errDropped'
             /\ published' = published
     /\ \A i \in DOMAIN published' :
          published'[i].kind = "final" => published'[i].seg \notin errDropped'
     /\ SubSeq(published', 1, Len(published)) = published
     /\ (thr[Driver].pc = "Recv" /\ thr'[Driver].fail = "eof") =>
          thr'[Driver].pc = "Ack"
     /\ (thr[Driver].pc = "Ack" /\ thr'[Driver].pc # "Ack") =>
          acked' = <<InteractionId>>
    ]_vars

\* C14 witness: OnError dropped the current segment while it was OPEN and a
\* final is now being delivered to it by the Listen loop of the old session
C14_Witness ==
  /\ segmentId \in errDropped
  /\ state = StateDropped
  /\ ~HasFinal(segmentId)
  /\ \E t \in Threads : thr[t].pc = "OnFinal"

\* C15: once OnError has dropped the current segment, the driver reads no
\* further frame into handler.SendAudio: it stops forwarding audio and ends
\* the stream
C15_DriverStopsAfterErrorDrop ==
  [][(segmentId \in errDropped /\ state = StateDropped /\ thr[Driver].pc = "Recv")
       => thr'[Driver].pc # "SendAudio"
    ]_vars

\* the frame loop ended by io.EOF or by a frame with end_of_utterance
EndedNormally == thr[Driver].fail \in {"eof", "eou"}

\* C16: when the frame loop ends by end-of-input or by a frame with
\* end_of_utterance, the driver sends exactly one terminal ack, carrying the
\* interaction id of the first frame, whatever the state of the segment; no
\* second ack is ever sent
C16_OneAckOnNormalEnd ==
  /\ Len(acked) <= 1
  /\ EndedNormally =>
       /\ thr[Driver].pc \in {"Ack", "Close", "AdapterClose", "Return"}
       /\ IF thr[Driver].pc = "Ack" THEN acked = <<>>
                                    ELSE acked = <<InteractionId>>
  /\ thr[Driver].pc = "Ack" => EndedNormally

\* C16 witness: the segment was dropped, a later frame carried
\* end_of_utterance, and the ack has been sent
C16_Witness ==
  /\ thr[Driver].pc = "Close"
  /\ thr[Driver].fail = "eou"
  /\ state = StateDropped
  /\ acked = <<InteractionId>>

\* C17: the driver tests the RPC context before every read of the frame
\* loop, so a step of the loop taken with the context cancelled drops the
\* segment; and a loop ended by a failed read or by the cancellation sends
\* no ack
C17_CancellationCheckedBeforeRead ==
  [][/\ (thr[Driver].pc = "Recv" /\ ctxCancelled
          /\ <<thr[Driver], frames>>' # <<thr[Driver], frames>>)
         => thr'[Driver].pc = "Drop"
     /\ thr'[Driver].fail \in {"recvErr", "cancelled"} => acked' = <<>>
    ]_vars

\* C18: when handler.SendAudio fails for a frame, the first frame included,
\* StreamAudio returns success and the current segment has been dropped
C18_SendFailureDropsAndReturnsSuccess ==
  (thr[Driver].pc = "Return" /\ thr[Driver].fail \in {"sendErr", "firstSendErr"})
    => /\ thr[Driver].fail # "firstSendErr"
       /\ segmentId \in wasDropped

\* C19: every frame the frame loop has handled, one with empty audio
\* included, has set last_audio_offset_ms to its offset (frame k carries
\* offset k), so between two reads the handler holds the offset of the last
\* frame read and stamps the next final with it
C19_EmptyFrameUpdatesOffset ==
  (thr[Driver].pc = "Recv" /\ frames > 1) => lastAudioOffsetMs = frames

\* C20: a publish call, failed or not, leaves the lifecycle and the handler's
\* counters and flags as they are, and the callback goes on from it the same
\* way: OnPartial returns, OnFinal goes on to read the rollover flags; a
\* failed call adds no event
C20_FailedPublishKeepsLifecycle ==
  [][\A t \in Threads :
       (thr[t].pc \in {"P_publish", "F_publish"} /\ thr'[t] # thr[t]) =>
          /\ state' = state
          /\ segmentId' = segmentId
          /\ pendingRestart' = pendingRestart
          /\ partialCount' = partialCount
          /\ thr'[t] = IF thr[t].pc = "F_publish"
                         THEN [thr[t] EXCEPT !.pc = "F_flags"]
                         ELSE Resume(thr[t])
          /\ publishFaults' # publishFaults => published' = published
    ]_vars

\* C20 witness: the publish of the first segment's final failed, and the
\* rollover has closed that segment and opened the next one
C20_Witness ==
  /\ publishFaults < MaxPublishFailures
  /\ segState[1] = StateClosed
  /\ ~HasFinal(1)
  /\ segmentId = 2
  /\ state = StateOpen

\* C21: Lifecycle.EmitPartial returns no error exactly when the state is
\* OPEN; in FINAL_EMITTED it returns the partial-after-final error, in CLOSED
\* and in DROPPED the closed error; in every case it leaves the state and the
\* segment id as they were
C21_EmitPartialOnlyWhenOpen ==
  [][\A t \in Callers :
       (thr[t].pc = "call" /\ thr'[t].op = "EmitPartial") =>
          /\ (thr'[t].err = "nil") <=> (state = StateOpen)
          /\ state = StateFinalEmitted =>
                thr'[t].err = "ErrCannotEmitPartialAfterFinal"
          /\ state \in {StateClosed, StateDropped} =>
                thr'[t].err = "ErrSegmentClosed"
          /\ state' = state
          /\ segmentId' = segmentId
    ]_vars

\* C21 witness: of two EmitPartial calls on one lifecycle, one was admitted
\* while OPEN and one was rejected after the final
C21_Witness ==
  \E t, u \in Callers :
    /\ thr[t].op = "EmitPartial" /\ thr[t].was = StateOpen
    /\ thr[t].err = "nil"
    /\ thr[u].op = "EmitPartial" /\ thr[u].was = StateFinalEmitted
    /\ thr[u].err = "ErrCannotEmitPartialAfterFinal"
    /\ state = StateFinalEmitted

\* the callers whose EmitFinal call on segment id returned no error
FinalsAdmitted(id) ==
  {t \in Callers : thr[t].op = "EmitFinal" /\ thr[t].seg = id /\ thr[t].err = "nil"}

\* C22: Lifecycle.EmitFinal returns no error exactly when the state is OPEN
\* (no partial is needed before) and then leaves FINAL_EMITTED; in
\* FINAL_EMITTED it returns the already-final error, in CLOSED and DROPPED the
\* closed error, and leaves the state as it was; no other call moves OPEN to
\* FINAL_EMITTED; of the EmitFinal calls made on one segment at most one is
\* admitted, every call rejected as already-final follows an admitted one,
\* and when all callers call EmitFinal exactly one is admitted
C22_EmitFinalOnceFromOpen ==
  /\ [](\A t \in Callers :
          /\ Cardinality(FinalsAdmitted(thr[t].seg)) <= 1
          /\ (thr[t].op = "EmitFinal" /\ thr[t].err = "ErrFinalAlreadyEmitted")
                => Cardinality(FinalsAdmitted(thr[t].seg)) = 1)
  /\ []((\A t \in Callers : thr[t].op = "EmitFinal")
          => Cardinality(FinalsAdmitted(segmentId)) = 1)
  /\ [][/\ \A t \in Callers :
            (thr[t].pc = "call" /\ thr'[t].op = "EmitFinal") =>
               /\ (thr'[t].err = "nil") <=> (state = StateOpen)
               /\ state = StateOpen => state' = StateFinalEmitted
               /\ state = StateFinalEmitted =>
                     thr'[t].err = "ErrFinalAlreadyEmitted" /\ state' = state
               /\ state \in {StateClosed, StateDropped} =>
                     thr'[t].err = "ErrSegmentClosed" /\ state' = state
               /\ segmentId' = segmentId
        /\ (state = StateOpen /\ state' = StateFinalEmitted) =>
              \E t \in Callers : /\ thr[t].pc = "call"
                                   /\ thr'[t].op = "EmitFinal"
                                   /\ thr'[t].err = "nil"
       ]_vars

\* C22 witness: every caller called EmitFinal on the first segment, which
\* had no partial; one call was admitted and the others were rejected as
\* already-final
C22_Witness ==
  /\ \A t \in Callers : thr[t].op = "EmitFinal" /\ thr[t].seg = segmentId
  /\ \E t \in Callers :
        /\ thr[t].err = "nil"
        /\ \A u \in Callers \ {t} : thr[u].err = "ErrFinalAlreadyEmitted"
  /\ state = StateFinalEmitted

\* the callers whose Drop call on segment id returned true
DropsDone(id) ==
  {t \in Callers : thr[t].op = "Drop" /\ thr[t].seg = id /\ thr[t].ok}

\* C23: Lifecycle.Drop returns true and leaves DROPPED exactly when the state
\* is OPEN or FINAL_EMITTED; in CLOSED and in DROPPED it returns false and
\* changes nothing; the segment id is never changed; of the Drop calls made on
\* one segment id (no Reset in between) at most one returns true
C23_DropOncePerSegment ==
  /\ [](\A t \in Callers : Cardinality(DropsDone(thr[t].seg)) <= 1)
  /\ [][\A t \in Callers :
          (thr[t].pc = "call" /\ thr'[t].op = "Drop") =>
             /\ thr'[t].ok <=> (state \in {StateOpen, StateFinalEmitted})
             /\ thr'[t].ok => state' = StateDropped
             /\ ~thr'[t].ok => state' = state
             /\ segmentId' = segmentId
       ]_vars

\* C23 witness: Drop calls on one segment of which the first, made after the
\* final, returned true and the second false
C23_Witness ==
  \E t, u \in Callers :
    /\ thr[t].op = "Drop" /\ thr[t].was = StateFinalEmitted /\ thr[t].ok
    /\ thr[u].op = "Drop" /\ thr[u].was = StateDropped /\ ~thr[u].ok
    /\ thr[u].seg = thr[t].seg
    /\ state = StateDropped

\* C24: Lifecycle.Close leaves the segment CLOSED from every state, the
\* dropped one included, without changing the segment id; closing twice is
\* the same as closing once
C24_CloseFromEveryState ==
  /\ [](\A s \in States : CloseState(CloseState(s)) = CloseState(s))
  /\ [][\A t \in Callers :
          (thr[t].pc = "call" /\ thr'[t].op = "Close") =>
             /\ state' = StateClosed
             /\ segmentId' = segmentId
       ]_vars

\* C24 witness: a Close of a dropped segment and a second Close after it
C24_Witness ==
  \E t, u \in Callers :
    /\ thr[t].op = "Close" /\ thr[t].was = StateDropped
    /\ thr[u].op = "Close" /\ thr[u].was = StateClosed
    /\ thr[u].seg = thr[t].seg
    /\ state = StateClosed

\* C25: Lifecycle.Reset(id2) on a CLOSED or DROPPED segment leaves the
\* lifecycle OPEN with segment id id2, both in the same step (no state shows
\* the new id with the old state or the old id reopened), and EmitPartial
\* and EmitFinal are admitted again in the state it leaves
C25_ResetReopensUnderNewId ==
  [][/\ \A t \in Callers :
          (thr[t].pc = "reset" /\ thr'[t].pc = "done") =>
             /\ state' = StateOpen
             /\ segmentId' = thr[t].id
             /\ EmitPartial(state') = "nil"
             /\ EmitFinal(state') = "nil"
     /\ segmentId' # segmentId => state' = StateOpen
     /\ (IsTerminal(state) /\ state' = StateOpen) => segmentId' # segmentId
    ]_vars

\* C25 witness: a closed or dropped segment was reset to a generated id, and
\* an EmitPartial or EmitFinal on the new segment was admitted
C25_Witness ==
  \E t, u \in Callers :
    /\ thr[t].op = "Next" /\ thr[t].pc = "done"
    /\ thr[t].was \in {StateClosed, StateDropped}
    /\ thr[u].op \in {"EmitPartial", "EmitFinal"}
    /\ thr[u].seg = thr[t].id
    /\ thr[u].err = "nil"
    /\ segmentId = thr[t].id

\* the callers that have called Generator.Next
NextCallers == {t \in Callers : thr[t].op = "Next"}

\* C26: concurrent Next calls on one generator each receive a different n, so
\* that all segment ids produced, whatever the interaction ids passed (one of
\* them has itself the form of a segment id), differ from each other and from
\* the id of the first segment
C26_SegmentIdsUnique ==
  \A t \in NextCallers :
    /\ thr[t].id # Sprintf(<<"int-A">>, 1)
    /\ thr[t].n # 1
    /\ \A u \in NextCallers \ {t} :
          thr[t].n # thr[u].n /\ thr[t].id # thr[u].id

\* C26 witness: every caller is between its Next call and its Reset, all
\* with the same interaction id
C26_Witness ==
  /\ NextCallers = Callers
  /\ \A t \in Callers : thr[t].pc = "reset" /\ thr[t].arg = <<"int-A">>

\* C27: the generator has one counter for all interaction ids: a Next call
\* returns the number of Next calls made so far, this one included, whatever
\* id is passed, formatted behind that id; the numbers handed out for one
\* interaction id therefore increase strictly
C27_OneCounterForAllInteractions ==
  [][\A t \in Callers :
       (thr[t].pc = "call" /\ thr'[t].op = "Next") =>
          /\ thr'[t].n = Cardinality(NextCallers) + 2
          /\ thr'[t].n = counter + 1
          /\ counter' = counter + 1
          /\ thr'[t].id = thr'[t].arg \o <<"-seg-">> \o Digits(thr'[t].n)
          /\ \A u \in NextCallers : thr[u].n < thr'[t].n
    ]_vars

\* C27 witness: after int-A-seg-1, the ids int-B-seg-2 and int-A-seg-3 were
\* handed out: the numbers of int-A are 1 and 3
C27_Witness ==
  \E t, u \in Callers :
    /\ thr[t].id = <<"int-B", "-seg-", "2">>
    /\ thr[u].id = <<"int-A", "-seg-", "3">>
    /\ \A v \in NextCallers : thr[v].arg = <<"int-A">> => thr[v].n # 2

\* C28 as stated: on a disabled (log-only) publisher PublishPartial and
\* PublishFinal return no error and write nothing, for every event value, one
\* that cannot be serialised to JSON included
C28_DisabledPublishAlwaysSucceeds ==
  [][\A t \in Callers :
       (thr[t].pc = "call" /\ thr'[t].pc = "done" /\ ~thr'[t].p.enabled) =>
          /\ thr'[t].err = "nil"
          /\ published' = published
    ]_vars

\* C28 amended: on a disabled publisher PublishPartial and PublishFinal
\* write nothing for any event value; they return no error exactly when the
\* event can be serialised to JSON, and the serialisation error otherwise
C28_DisabledPublishWritesNothing ==
  [][\A t \in Callers :
       (thr[t].pc = "call" /\ thr'[t].pc = "done" /\ ~thr'[t].p.enabled) =>
          /\ published' = published
          /\ thr'[t].event = "transcript" => thr'[t].err = "nil"
          /\ thr'[t].event = "chan" => thr'[t].err = "json: unsupported type"
    ]_vars

\* C28 witness: on a disabled publisher one call with a transcript event
\* returned no error and one with a channel returned the error; neither
\* wrote anything
C28_Witness ==
  \E t, u \in Callers :
    /\ thr[t].pc = "done" /\ ~thr[t].p.enabled
    /\ thr[t].event = "transcript" /\ thr[t].err = "nil"
    /\ thr[u].pc = "done" /\ ~thr[u].p.enabled
    /\ thr[u].op = "PublishFinal"
    /\ thr[u].event = "chan" /\ thr[u].err # "nil"
    /\ published = <<>>

\* the segments whose final, delivered by session src, was published
FinalsFrom(src) ==
  {published[j].seg : j \in {i \in Events : IsFinal(i) /\ published[i].src = src}}

MockQuiet ==
  /\ closed
  /\ thr[Driver].pc \in ClientPcs
  /\ \A t \in Workers : thr[t].pc \in {"idle", "done"}

\* C30: after any sequence of SendAudio calls followed by Close on a started
\* mock adapter, the callback has received exactly one OnFinal (from the
\* natural completion, or from the drain on Close) and at most one
\* OnEndOfUtterance; a Close or a SendAudio on a closed adapter starts no
\* goroutine and calls no callback
C30_ExactlyOneFinalFromMock ==
  /\ [](MockQuiet => testCallback.finals = 1 /\ testCallback.utterances <= 1)
  /\ [](testCallback.finals <= 1 /\ testCallback.utterances <= 1)
  /\ [][(closed /\ thr[Driver].pc \in {"MS_send", "AdapterClose"}
           /\ thr'[Driver] # thr[Driver])
          => nextThread' = nextThread /\ testCallback' = testCallback
       ]_vars

\* a stream on the mock adapter that forwarded one audio frame per partial
\* of the utterance and ended by end-of-input, every goroutine finished, with
\* no RPC error and no dropped segment
CleanMockStream ==
  /\ StreamEnded
  /\ provider = "mock"
  /\ ~rpcErr
  /\ wasDropped = {}
  /\ audioReceived = utterance
  /\ LimitPartials = 0 \/ utterance <= LimitPartials

\* C31: a clean single utterance on the mock adapter (as many audio frames as
\* the utterance has partials, then end-of-input) publishes exactly that many
\* partial events under the first segment id, then exactly one final event of
\* that segment, and the terminal ack carries the interaction id
C31_CleanMockUtterance ==
  CleanMockStream =>
    /\ acked = <<InteractionId>>
    /\ Len(published) = utterance + 1
    /\ \A i \in 1..utterance : IsPartial(i) /\ published[i].seg = 1
    /\ IsFinal(utterance + 1) /\ published[utterance + 1].seg = 1

\* the driver is inside its frame loop: it has not dropped the segment
\* itself and is not on its way out
DriverInLoop ==
  thr[Driver].pc \notin {"Drop", "Ack", "Close", "AdapterClose", "Return", "done"}

\* C32: in continuous mode the stream goes on after a drop: while the driver
\* is still in its frame loop, a hypothesis the provider delivers when the
\* current segment is DROPPED is admitted, or at least starts the rollover to
\* a new segment, instead of being discarded
C32_ContinuousModeRecoversFromDrop ==
  [][\A t \in Threads :
       (continuousMode /\ state = StateDropped /\ DriverInLoop
          /\ thr[t].pc \in {"OnPartial", "OnFinal"} /\ thr'[t] # thr[t])
         => thr'[t].pc \in {"P_count", "F_offset", "C_close"}
    ]_vars

\* C33: limits are counted per segment: the rollover's reset of
\* audio_bytes_seen and partials_emitted to 0 never happens while a partial
\* that the old segment admitted is still waiting to be counted, so no
\* partial of segment n is counted against the limit of segment n+1
C33_CountersPerSegment ==
  [][(utteranceCount' # utteranceCount)
       => /\ audioBytes' = 0
          /\ partialCount' = 0
          /\ \A t \in Threads : thr[t].pc # "P_count"
    ]_vars

\* C34: when OnFinal has accepted the final and called the publisher, its
\* next step clears pending_restart, leaves the lifecycle alone and takes
\* exactly one branch: the single-utterance rollover (which ends in
\* adapter.Restart) if pending_restart was set, else the continuous rollover
\* (which does not) if continuous mode is on, else no rollover at all; an
\* OnFinal whose final the lifecycle rejects returns without a rollover and
\* leaves pending_restart as it was
C34_OneBranchAfterFinal ==
  [][\A t \in Threads :
       /\ (thr[t].pc = "F_flags" /\ thr'[t] # thr[t])
            => /\ ~pendingRestart'
               /\ state' = state /\ segmentId' = segmentId
               /\ IF pendingRestart THEN thr'[t].pc = "U_close"
                  ELSE IF continuousMode THEN thr'[t].pc = "C_close"
                  ELSE thr'[t].pc \notin RolloverPcs
       /\ (thr[t].pc \in {"U_reset", "C_reset"} /\ thr'[t] # thr[t])
            => (thr'[t].pc = "R_new" <=> thr[t].pc = "U_reset")
       /\ (thr[t].pc = "OnFinal" /\ thr'[t] # thr[t] /\ EmitFinal(state) # "nil")
            => /\ pendingRestart' = pendingRestart
               /\ state' = state
               /\ thr'[t].pc \notin RolloverPcs \cup {"F_offset", "F_publish", "F_flags"}
    ]_vars

\* a single-utterance rollover has reopened the lifecycle and is about to
\* restart the adapter, the pending restart being cleared
C34_Witness ==
  \E t \in Threads :
    /\ thr[t].pc = "R_new"
    /\ thr[t].acc
    /\ ~pendingRestart
    /\ state = StateOpen
    /\ \E i \in Events : IsFinal(i)

\* C35: Lifecycle.Reset is only ever executed while the state is CLOSED: at
\* the step of a rollover that calls h.lifecycle.Reset(newSegmentId) the
\* lifecycle is never OPEN, FINAL_EMITTED or DROPPED, whatever callbacks,
\* SendAudio, DropSegment and Close run concurrently
C35_ResetOnlyWhenClosed ==
  [][\A t \in Threads :
       (thr[t].pc \in {"U_reset", "C_reset"} /\ thr'[t] # thr[t])
         => state = StateClosed
    ]_vars

\* a rollover has reset the lifecycle to a new OPEN segment after a drop hit
\* an earlier segment
C35_Witness ==
  /\ state = StateOpen
  /\ segmentId > 1
  /\ \E d \in wasDropped : d < segmentId

\* C36: on every provider session the configuration message is the first
\* message sent, and nothing is sent on a session after its send side was
\* closed: a SendAudio running concurrently with Restart neither sends audio
\* on the new session ahead of its configuration nor on the old session after
\* CloseSend
C36_ConfigFirstOnEverySession ==
  [][\A s \in 1..MaxStreams :
       sent'[s] # sent[s]
         => /\ sent'[s][1] = "config"
            /\ s \notin sendClosed
    ]_vars

\* C37: when SendAudio drops a segment because max_audio_bytes was
\* exceeded, the segment that becomes DROPPED is one whose own
\* audio_bytes_seen exceeds the limit, also when a rollover ran between the
\* counter update and the drop
C37_ByteDropHitsOffendingSegment ==
  [][\A t \in Threads :
       (/\ thr[t].pc = "SA_drop"
        /\ thr[t].fail = "max audio bytes exceeded"
        /\ thr'[t] # thr[t]
        /\ state # StateDropped
        /\ state' = StateDropped)
         => audioBytes > LimitAudioBytes
    ]_vars

\* C38: every published event carries the id of the segment whose lifecycle
\* admitted it: no rollover replaces the segment id while a callback stands
\* between its EmitPartial / EmitFinal check and its read of the segment id
C38_EventCarriesAdmittingSegment ==
  [][segmentId' # segmentId
       => \A t \in Threads : thr[t].pc \notin {"P_count", "P_segid", "F_offset"}
    ]_vars

\* goroutine record r is a receive loop of session s: a Listen that has not
\* captured a.stream yet, or a loop (or a callback it is delivering) bound
\* to s
LoopBound(r, s) ==
  /\ s # 0
  /\ \/ r.pc = "Listen"
     \/ r.pc \notin {"idle", "done"} /\ r.stream = s

\* C39: when a single-utterance rollover ends, with or without an error from
\* adapter.Restart, and leaves the new segment OPEN, a receive loop bound to
\* the adapter's current session is running
C39_OpenSegmentHasReceiveLoop ==
  [][\A t \in Threads :
       (/\ thr[t].pc \in {"R_new", "R_config"}
        /\ thr'[t].pc \notin {"R_new", "R_config"}
        /\ state' = StateOpen)
         => \E u \in Threads : LoopBound(thr'[u], stream')
    ]_vars

\* the driver has called handler.DropSegment on one of its error paths
\* (input error, cancelled context, failed send) and has not returned yet
DriverDropped ==
  /\ thr[Driver].pc \in {"Close", "AdapterClose", "Return"}
  /\ thr[Driver].fail \in {"recvErr", "cancelled", "sendErr"}

\* C40: once the driver has dropped the segment, the lifecycle is never OPEN
\* again and no event is published on the stream, also when a rollover
\* (Close followed by Reset) was in flight at the moment of the drop
C40_NothingAfterDriverDrop ==
  [][DriverDropped => (state' # StateOpen /\ published' = published)]_vars

====
